---- MODULE Spec2Model ----
(***************************************************************************)
(* State-machine model of tools/normalize_audio.py: the per-file loop of   *)
(* main() (measure, classify, plan, apply, verify, count) and the steps of *)
(* _apply_filter() (mkstemp, ffmpeg, backup copy, shutil.move, handler).   *)
(*                                                                         *)
(* Levels (LUFS, dBFS, dB) are fixed-point integers in hundredths of a dB, *)
(* the resolution ffmpeg's loudnorm prints; binary floating-point error of *)
(* a subtraction is not modelled.  File contents are opaque strings.       *)
(***************************************************************************)
EXTENDS Integers, Sequences, FiniteSets, TLC

VARIABLES
  pc,            \* position of the program
  probe,         \* how `ffmpeg -version` went in check_ffmpeg
  no_audio_dir,  \* no paths were given and assets/audio is no directory
  exit_status,   \* exit status of the process, -1 while it runs
  dry_run,       \* args.dry_run
  backup,        \* args.backup
  target,        \* args.target
  peak_target,   \* args.peak
  same_fs,       \* tempfile.gettempdir() is on the filesystem of the audio files
  fs,            \* the filesystem: path -> contents
  fs0,           \* the filesystem when the run started
  audio_files,   \* the list main() iterates over
  idx,           \* index of the current file in audio_files (1-based)
  m_result,      \* measure_loudness's `result` of the first measurement: return code, stderr
  measurements,  \* result of the first measure_loudness() of the current file
  regime,        \* branch of main() taken for the current file
  gain,          \* main()'s local `gain`
  shown_gain,    \* the gain printed by format_db(gain)
  decision,      \* "Skip" or "Apply" once main() has compared the gap with the tolerance
  af,            \* the filter built by normalize_lufs / normalize_peak
  cmd,           \* the ffmpeg command line built by _apply_filter
  tmp_path,      \* _apply_filter's tmp_path
  pre,           \* contents of the original when _apply_filter was entered
  rc,            \* result.returncode of the ffmpeg filter run, -1 while there is no result
  ok,            \* value returned by normalize_lufs / normalize_peak
  verified,      \* the post-apply measurement gave a usable value
  verify_none,   \* the post-apply measurement returned None
  success_count, skip_count, fail_count,
  outcome,       \* per index of audio_files: how the file ended
  applyCalls,    \* per index: number of _apply_filter invocations
  measureCalls,  \* per index: number of measure_loudness invocations
  pair           \* a dry run followed by a real run on the same inputs: what
                 \* is kept of the dry run ("single" when one run is observed)

vars == << pc, probe, no_audio_dir, exit_status, verify_none, dry_run, backup, target, peak_target, same_fs, fs, fs0,
           audio_files, idx, m_result, measurements, regime, gain, shown_gain,
           decision, af, cmd,
           tmp_path, pre, rc, ok, verified, success_count, skip_count,
           fail_count, outcome, applyCalls, measureCalls, pair >>

----------------------------------------------------------------------------
(* Bounds of the model *)

MaxFiles == 2

----------------------------------------------------------------------------
(* Program constants, in hundredths of a dB *)

DEFAULT_TARGET_LUFS == -1800
TRUE_PEAK_LIMIT == -100
DEFAULT_PEAK_TARGET == -300
LUFS_TOLERANCE == 150
PEAK_TOLERANCE == 150

----------------------------------------------------------------------------
(* Paths and contents *)

Paths == {"a.wav", "b.ogg"}

\* os.path.splitext(filepath)[1].lower()
Ext(p) == IF p = "a.wav" THEN ".wav" ELSE ".ogg"

\* filepath + ".bak"
BakPath(p) == p \o ".bak"

\* tempfile.mkstemp(suffix=ext): a fresh name in tempfile.gettempdir()
MkstempPath(ext) == "tmpdir/tmp" \o ext

FsPaths == Paths \cup {BakPath(p) : p \in Paths} \cup {MkstempPath(Ext(p)) : p \in Paths}

Absent == "<absent>"
Empty == ""
Partial == "<partial>"

\* what ffmpeg writes for an input with contents c (gain + limiter, re-encoded)
Filtered(c) == c \o "'"

\* faulty variant: the file is left where it is
UnlinkForgotten(f, p) == f

\* os.unlink(p)
Unlink(f, p) == [f EXCEPT ![p] = Absent]

\* os.path.exists(p)
Exists(f, p) == f[p] # Absent

----------------------------------------------------------------------------
(* Values of the loudnorm JSON block.  ffmpeg prints every field as a      *)
(* string; a field is a number, "-inf"/"inf"/"nan", text float() rejects,   *)
(* or is missing from the object.                                          *)

Num(v) == [k |-> "num", v |-> v]
Str(s) == [k |-> s, v |-> 0]
NoneV == Str("None")

\* a parsed JSON object with the two fields main() reads
Dict(i, tp) == [isNone |-> FALSE, input_i |-> i, input_tp |-> tp]
None == [isNone |-> TRUE, input_i |-> Str("absent"), input_tp |-> Str("absent")]

\* integrated loudness values the engine may report
InputIValues ==
  {Num(-3034), Num(-1950), Num(-1949), Num(-1650),
   Str("-inf"), Str("junk"), Str("absent")}

\* true peak values the engine may report
InputTpValues ==
  {Num(-450), Num(-449), Num(-150), Str("-inf"), Str("absent")}

\* one run of `ffmpeg -i f -af loudnorm=...:print_format=json -f null -`:
\* its return code and what its stderr holds
MeasureRuns ==
  {[rc |-> 1, text |-> "json", json |-> Dict(Num(-3034), Num(-450))],
   [rc |-> 0, text |-> "nobrace", json |-> Dict(Str("absent"), Str("absent"))],
   [rc |-> 0, text |-> "badjson", json |-> Dict(Str("absent"), Str("absent"))]}
  \cup {[rc |-> 0, text |-> "json", json |-> Dict(i, tp)] :
          i \in InputIValues, tp \in InputTpValues}

\* the runs a dry run that is to be repeated draws from: one per way the
\* loop body can go (null, Lufs skip, Lufs apply, Peak skip, Peak apply,
\* unmeasurable)
PairRuns ==
  {[rc |-> 1, text |-> "json", json |-> Dict(Num(-3034), Num(-450))],
   [rc |-> 0, text |-> "json", json |-> Dict(Num(-1949), Num(-450))],
   [rc |-> 0, text |-> "json", json |-> Dict(Num(-3034), Num(-450))],
   [rc |-> 0, text |-> "json", json |-> Dict(Str("-inf"), Num(-449))],
   [rc |-> 0, text |-> "json", json |-> Dict(Str("-inf"), Num(-150))],
   [rc |-> 0, text |-> "json", json |-> Dict(Str("-inf"), Str("-inf"))]}

\* float(s) raises ValueError/KeyError/TypeError
FloatRaises(x) == x.k \in {"junk", "absent", "None"}

\* math.isfinite(float(s))
IsFinite(x) == x.k = "num"

\* faulty variant: the return code of the engine is not looked at
measure_loudness_ignoring_rc(run) ==
  IF run.text = "nobrace" THEN None
  ELSE IF run.text = "badjson" THEN None
  ELSE run.json

measure_loudness(run) ==
  IF run.rc # 0 THEN None
  ELSE IF run.text = "nobrace" THEN None
  ELSE IF run.text = "badjson" THEN None
  ELSE run.json

\* faulty variant: a LUFS value counts only beside a usable peak
is_lufs_valid_with_peak(m) ==
  IF FloatRaises(m.input_i) \/ FloatRaises(m.input_tp) THEN FALSE
  ELSE IsFinite(m.input_i) /\ IsFinite(m.input_tp)

is_lufs_valid(m) ==
  IF FloatRaises(m.input_i) THEN FALSE ELSE IsFinite(m.input_i)

\* faulty variant: the peak is returned without the isfinite test
get_peak_db_unchecked(m) ==
  IF FloatRaises(m.input_tp) THEN NoneV ELSE m.input_tp

get_peak_db(m) ==
  IF FloatRaises(m.input_tp) THEN NoneV
  ELSE IF IsFinite(m.input_tp) THEN m.input_tp ELSE NoneV

Abs(x) == IF x < 0 THEN -x ELSE x

\* faulty variant: a gap equal to the tolerance is skipped too
LufsWithinToleranceInclusive(current_lufs, tgt) == Abs(current_lufs - tgt) <= LUFS_TOLERANCE

\* abs(current_lufs - target) < LUFS_TOLERANCE
LufsWithinTolerance(current_lufs, tgt) == Abs(current_lufs - tgt) < LUFS_TOLERANCE

\* faulty variant: the peak is compared with the loudness target
PeakWithinToleranceOfLufsTarget(current_peak, ptgt) ==
  Abs(current_peak - DEFAULT_TARGET_LUFS) < PEAK_TOLERANCE

\* abs(current_peak - peak_target) < PEAK_TOLERANCE
PeakWithinTolerance(current_peak, ptgt) == Abs(current_peak - ptgt) < PEAK_TOLERANCE

\* gain = target - current_lufs
LufsGain(current_lufs, tgt) == tgt - current_lufs

\* gain = peak_target - current_peak
PeakGain(current_peak, ptgt) == ptgt - current_peak

\* faulty variant: the operands are exchanged
normalize_lufs_gain_db_swapped(current_lufs, target_lufs) == current_lufs - target_lufs

\* normalize_lufs: gain_db = target_lufs - current_lufs
normalize_lufs_gain_db(current_lufs, target_lufs) == target_lufs - current_lufs

\* normalize_peak: gain_db = target_peak_db - current_peak_db
normalize_peak_gain_db(current_peak_db, target_peak_db) == target_peak_db - current_peak_db

\* f"volume={gain_db}dB,alimiter=limit={TRUE_PEAK_LIMIT}dB:attack=0.1:release=50"
FilterSpec(gain_db) == [volume |-> gain_db, limit |-> TRUE_PEAK_LIMIT]
NoFilter == [volume |-> 0, limit |-> 0]

\* f"{value:+.1f} dB": the nearest tenth of a dB.  A value halfway between
\* two tenths goes to either, as the binary value of the float decides.
format_db(value) ==
  LET lo == (value \div 10) * 10
      r == value - lo
  IN IF r < 5 THEN {lo} ELSE IF r > 5 THEN {lo + 10} ELSE {lo, lo + 10}

get_codec_args(ext) ==
  IF ext = ".ogg" THEN <<"-c:a", "libvorbis", "-q:a", "6">>
  ELSE IF ext = ".opus" THEN <<"-c:a", "libopus", "-b:a", "128k">>
  ELSE IF ext = ".mp3" THEN <<"-c:a", "libmp3lame", "-q:a", "2">>
  ELSE <<"-c:a", "pcm_s16le">>

\* faulty variant: the dry-run flag is not consulted
DryRunIgnored(dr) == FALSE

\* if args.dry_run: report the plan, count the file, continue
StopsAfterPlanning(dr) == dr

\* the branch of main()'s if / elif / else chain a measurement takes
Regime(m) ==
  IF is_lufs_valid(m) THEN "Lufs"
  ELSE IF get_peak_db(m) # NoneV THEN "Peak"
  ELSE "Unmeasurable"

----------------------------------------------------------------------------
(* Initial state: parsed arguments, the files on disk, nothing processed *)

\* --target and --peak: the defaults, and values one hundredth away, which
\* move a measurement across the edge of the tolerance window
TargetChoices ==
  {<<DEFAULT_TARGET_LUFS, DEFAULT_PEAK_TARGET>>,
   <<DEFAULT_TARGET_LUFS + 1, DEFAULT_PEAK_TARGET + 1>>}

\* contents of the audio files before the run
OriginalContents(p) == IF p = "a.wav" THEN "A" ELSE "B"

\* a .bak sibling left by an earlier run
OldBackup == "old"

InitialFs(oldBak) ==
  [p \in FsPaths |->
     IF p \in Paths THEN OriginalContents(p)
     ELSE IF oldBak /\ p \in {BakPath(q) : q \in Paths} THEN OldBackup
     ELSE Absent]

\* the lists of files main() can collect from its arguments
FileLists == UNION {[1..n -> Paths] : n \in 0..MaxFiles}

NoResult == [rc |-> 0, text |-> "none"]
NoCmd == [input |-> "", af |-> NoFilter, codec |-> <<>>, output |-> ""]

InitRun ==
  /\ pc = "start"
  /\ probe = "none"
  /\ no_audio_dir = FALSE
  /\ exit_status = -1
  /\ dry_run \in BOOLEAN
  /\ backup \in BOOLEAN
  /\ \E t \in TargetChoices : target = t[1] /\ peak_target = t[2]
  /\ same_fs \in BOOLEAN
  /\ \E oldBak \in BOOLEAN : fs = InitialFs(oldBak)
  /\ fs0 = fs
  /\ audio_files = <<>>
  /\ idx = 0
  /\ m_result = NoResult
  /\ measurements = None
  /\ regime = "none"
  /\ gain = 0
  /\ shown_gain = 0
  /\ decision = "none"
  /\ af = NoFilter
  /\ cmd = NoCmd
  /\ tmp_path = ""
  /\ pre = Absent
  /\ rc = -1
  /\ ok = FALSE
  /\ verified = FALSE
  /\ verify_none = FALSE
  /\ success_count = 0
  /\ skip_count = 0
  /\ fail_count = 0
  /\ outcome = <<>>
  /\ applyCalls = <<>>
  /\ measureCalls = <<>>

\* nothing is kept when a single run is observed
NoDry == [plans |-> <<>>, outcome |-> <<>>, skip |-> 0, fail |-> 0]
SinglePair == [mode |-> "single", first |-> <<>>, plans |-> <<>>, dry |-> NoDry]

\* one invocation of main()
Init == InitRun /\ pair = SinglePair

\* the first of two invocations, with --dry-run
InitPair == InitRun /\ dry_run /\ pair = [SinglePair EXCEPT !.mode = "dry"]

argVars == << dry_run, backup, target, peak_target, same_fs, fs0 >>
countVars == << success_count, skip_count, fail_count >>
planVars == << m_result, regime, gain, shown_gain, decision >>
applierVars == << af, cmd, tmp_path, pre, rc, ok >>
callVars == << applyCalls, measureCalls >>
startVars == << probe, no_audio_dir >>
verifyVars == << verified, verify_none >>

----------------------------------------------------------------------------
(* main(): start-up *)

\* how running ["ffmpeg", "-version"] can go: exit 0, another exit code,
\* FileNotFoundError
FfmpegProbes == {"exit0", "nonzero", "notfound"}

\* faulty variant: any ffmpeg that starts counts as available
check_ffmpeg_any_exit(p) == p # "notfound"

\* check_ffmpeg(): result.returncode == 0, False on FileNotFoundError
check_ffmpeg(p) == p = "exit0"

\* if not check_ffmpeg(): sys.exit(1)
CheckFfmpeg ==
  /\ pc = "start"
  /\ \E p \in FfmpegProbes :
       /\ probe' = p
       /\ IF check_ffmpeg(p)
          THEN pc' = "discover" /\ UNCHANGED exit_status
          ELSE pc' = "exit1" /\ exit_status' = 1
  /\ UNCHANGED no_audio_dir
  /\ UNCHANGED << argVars, pair, fs, audio_files, idx, measurements, planVars,
                  applierVars, verifyVars, countVars, outcome, callVars >>

\* collect audio_files from args.paths or the default directory
DetermineFiles ==
  /\ pc = "discover"
  /\ \E paths_given \in BOOLEAN, default_dir_exists \in BOOLEAN, files \in FileLists :
       IF ~paths_given /\ ~default_dir_exists
       THEN /\ pc' = "exit1"
            /\ no_audio_dir' = TRUE
            /\ exit_status' = 1
            /\ UNCHANGED << audio_files, outcome, callVars >>
       ELSE /\ audio_files' = files
            /\ outcome' = [i \in 1..Len(files) |-> "none"]
            /\ applyCalls' = [i \in 1..Len(files) |-> 0]
            /\ measureCalls' = [i \in 1..Len(files) |-> 0]
            /\ pc' = IF files = <<>> THEN "exit0" ELSE "loop"
            /\ exit_status' = IF files = <<>> THEN 0 ELSE exit_status
            /\ UNCHANGED no_audio_dir
  /\ UNCHANGED probe
  /\ UNCHANGED << argVars, pair, fs, idx, measurements, planVars, applierVars,
                  verifyVars, countVars >>

----------------------------------------------------------------------------
(* main(): the loop over audio_files *)

\* `for filepath in audio_files:` takes the next file; the locals of the
\* previous iteration are dead from here on
ForNext ==
  /\ pc = "loop"
  /\ idx < Len(audio_files)
  /\ idx' = idx + 1
  /\ pc' = "measure"
  /\ measurements' = None /\ m_result' = NoResult
  /\ regime' = "none" /\ gain' = 0 /\ shown_gain' = 0 /\ decision' = "none"
  /\ af' = NoFilter /\ cmd' = NoCmd /\ tmp_path' = "" /\ pre' = Absent
  /\ rc' = -1 /\ ok' = FALSE /\ verified' = FALSE /\ verify_none' = FALSE
  /\ pair' = IF pair.mode = "single" \/ idx = 0 THEN pair
             ELSE [pair EXCEPT !.first = IF pair.mode = "dry" THEN Append(@, measurements) ELSE @,
                               !.plans = Append(@, << regime, decision >>)]
  /\ UNCHANGED << argVars, startVars, exit_status, fs, audio_files, countVars, outcome, callVars >>

\* the loop is exhausted: print the summary, main() returns
Summary ==
  /\ pc = "loop"
  /\ idx = Len(audio_files)
  /\ pc' = "done"
  /\ exit_status' = 0
  /\ UNCHANGED << argVars, pair, startVars, fs, audio_files, idx, measurements, planVars,
                  applierVars, verifyVars, countVars, outcome, callVars >>

filepath == audio_files[idx]

\* measurements = measure_loudness(filepath, target)
Measure ==
  /\ pc = "measure"
  /\ \E run \in MeasureRuns :
       /\ pair.mode = "dry" => run \in PairRuns
       /\ pair.mode = "real" => measure_loudness(run) = pair.first[idx]
       /\ m_result' = [rc |-> run.rc, text |-> run.text]
       /\ measurements' = measure_loudness(run)
  /\ measureCalls' = [measureCalls EXCEPT ![idx] = @ + 1]
  /\ pc' = "classify"
  /\ UNCHANGED << argVars, pair, startVars, exit_status, fs, audio_files, idx, regime, gain, shown_gain,
                  decision, applierVars,
                  verifyVars, countVars, outcome, applyCalls >>

\* if measurements is None: fail_count += 1; continue
MeasureFailed ==
  /\ pc = "classify"
  /\ measurements.isNone
  /\ fail_count' = fail_count + 1
  /\ outcome' = [outcome EXCEPT ![idx] = "Failed"]
  /\ pc' = "loop"
  /\ UNCHANGED << argVars, pair, startVars, exit_status, fs, audio_files, idx, measurements, planVars,
                  applierVars, verifyVars, success_count, skip_count, callVars >>

\* the body of `if is_lufs_valid(measurements):` up to the call of normalize_lufs
LufsPath ==
  /\ pc = "classify"
  /\ ~measurements.isNone
  /\ is_lufs_valid(measurements)
  /\ regime' = "Lufs"
  /\ LET current_lufs == measurements.input_i.v IN
       IF LufsWithinTolerance(current_lufs, target)
       THEN /\ decision' = "Skip"
            /\ skip_count' = skip_count + 1
            /\ outcome' = [outcome EXCEPT ![idx] = "Skipped"]
            /\ pc' = "loop"
            /\ UNCHANGED << gain, shown_gain, af, success_count, applyCalls >>
       ELSE /\ decision' = "Apply"
            /\ gain' = LufsGain(current_lufs, target)
            /\ shown_gain' \in format_db(gain')
            /\ IF StopsAfterPlanning(dry_run)
               THEN /\ success_count' = success_count + 1
                    /\ outcome' = [outcome EXCEPT ![idx] = "WouldNormalize"]
                    /\ pc' = "loop"
                    /\ UNCHANGED << af, applyCalls >>
               ELSE /\ af' = FilterSpec(normalize_lufs_gain_db(current_lufs, target))
                    /\ applyCalls' = [applyCalls EXCEPT ![idx] = @ + 1]
                    /\ pc' = "mkstemp"
                    /\ UNCHANGED << success_count, outcome >>
            /\ UNCHANGED skip_count
  /\ UNCHANGED << argVars, pair, startVars, exit_status, fs, audio_files, idx, m_result, measurements, cmd,
                  tmp_path, pre, rc, ok, verifyVars, fail_count, measureCalls >>

\* the body of `elif current_peak is not None:` up to the call of normalize_peak
PeakPath ==
  /\ pc = "classify"
  /\ ~measurements.isNone
  /\ ~is_lufs_valid(measurements)
  /\ get_peak_db(measurements) # NoneV
  /\ regime' = "Peak"
  /\ LET current_peak == get_peak_db(measurements).v IN
       IF PeakWithinTolerance(current_peak, peak_target)
       THEN /\ decision' = "Skip"
            /\ skip_count' = skip_count + 1
            /\ outcome' = [outcome EXCEPT ![idx] = "Skipped"]
            /\ pc' = "loop"
            /\ UNCHANGED << gain, shown_gain, af, success_count, applyCalls >>
       ELSE /\ decision' = "Apply"
            /\ gain' = PeakGain(current_peak, peak_target)
            /\ shown_gain' \in format_db(gain')
            /\ IF StopsAfterPlanning(dry_run)
               THEN /\ success_count' = success_count + 1
                    /\ outcome' = [outcome EXCEPT ![idx] = "WouldNormalize"]
                    /\ pc' = "loop"
                    /\ UNCHANGED << af, applyCalls >>
               ELSE /\ af' = FilterSpec(normalize_peak_gain_db(current_peak, peak_target))
                    /\ applyCalls' = [applyCalls EXCEPT ![idx] = @ + 1]
                    /\ pc' = "mkstemp"
                    /\ UNCHANGED << success_count, outcome >>
            /\ UNCHANGED skip_count
  /\ UNCHANGED << argVars, pair, startVars, exit_status, fs, audio_files, idx, m_result, measurements, cmd,
                  tmp_path, pre, rc, ok, verifyVars, fail_count, measureCalls >>

\* else: "No valid LUFS or peak measurement"; fail_count += 1; continue
Unmeasurable ==
  /\ pc = "classify"
  /\ ~measurements.isNone
  /\ ~is_lufs_valid(measurements)
  /\ get_peak_db(measurements) = NoneV
  /\ regime' = "Unmeasurable"
  /\ fail_count' = fail_count + 1
  /\ outcome' = [outcome EXCEPT ![idx] = "Failed"]
  /\ pc' = "loop"
  /\ UNCHANGED << argVars, pair, startVars, exit_status, fs, audio_files, idx, m_result, measurements, gain,
                  shown_gain, decision, applierVars, verifyVars, success_count,
                  skip_count, callVars >>

----------------------------------------------------------------------------
(* _apply_filter(filepath, af, ext, backup), one step per system call *)

\* faulty variant: the engine is told to write over its input
FilterCmdInPlace(fp, a, ext, tmp) ==
  [input |-> fp, af |-> a, codec |-> get_codec_args(ext), output |-> fp]

\* cmd = ["ffmpeg", "-y", "-i", filepath, "-af", af, *codec_args, tmp_path]
FilterCmd(fp, a, ext, tmp) ==
  [input |-> fp, af |-> a, codec |-> get_codec_args(ext), output |-> tmp]

\* the engine writes its output file and nothing else
EngineWrites(f, c, contents) == [f EXCEPT ![c.output] = contents]

\* faulty variant: the engine's exit status is not looked at
EngineNeverFailed(r) == FALSE

\* if result.returncode != 0:
EngineFailed(r) == r # 0

\* faulty variant: an existing .bak is kept instead of overwritten
BackupCopyKeepsOld(f, fp) ==
  IF Exists(f, BakPath(fp)) THEN f ELSE [f EXCEPT ![BakPath(fp)] = f[fp]]

\* bak_path = filepath + ".bak"; shutil.copy2(filepath, bak_path), completed
BackupCopy(f, fp) == [f EXCEPT ![BakPath(fp)] = f[fp]]

\* fd, tmp_path = tempfile.mkstemp(suffix=ext); os.close(fd)
Mkstemp ==
  /\ pc = "mkstemp"
  /\ tmp_path' = MkstempPath(Ext(filepath))
  /\ fs' = [fs EXCEPT ![tmp_path'] = Empty]
  /\ pre' = fs[filepath]
  /\ pc' = "ffmpeg"
  /\ UNCHANGED << argVars, pair, startVars, exit_status, audio_files, idx, measurements, planVars, af, cmd,
                  rc, ok, verifyVars, countVars, outcome, callVars >>

\* result = subprocess.run(cmd, ...): the engine succeeds, exits non-zero
\* (leaving an empty or partial output), or cannot be started
RunFilter ==
  /\ pc = "ffmpeg"
  /\ cmd' = FilterCmd(filepath, af, Ext(filepath), tmp_path)
  /\ \/ /\ rc' = 0
        /\ fs' = EngineWrites(fs, cmd', Filtered(fs[cmd'.input]))
        /\ pc' = "filtered"
     \/ /\ rc' = 1
        /\ \E left \in {Empty, Partial} : fs' = EngineWrites(fs, cmd', left)
        /\ pc' = "filtered"
     \/ /\ pc' = "except"
        /\ UNCHANGED << rc, fs >>
  /\ UNCHANGED << argVars, pair, startVars, exit_status, audio_files, idx, measurements, planVars, af,
                  tmp_path, pre, ok, verifyVars, countVars, outcome, callVars >>

\* if result.returncode != 0: os.unlink(tmp_path); return False
FilterFailed ==
  /\ pc = "filtered"
  /\ EngineFailed(rc)
  /\ fs' = Unlink(fs, tmp_path)
  /\ ok' = FALSE
  /\ pc' = "returned"
  /\ UNCHANGED << argVars, pair, startVars, exit_status, audio_files, idx, measurements, planVars, af, cmd,
                  tmp_path, pre, rc, verifyVars, countVars, outcome, callVars >>

\* if backup: shutil.copy2(filepath, filepath + ".bak"); the copy completes
\* or raises, leaving the .bak as it was or partly written
Backup ==
  /\ pc = "filtered"
  /\ ~EngineFailed(rc)
  /\ IF backup
     THEN \/ /\ fs' = BackupCopy(fs, filepath)
             /\ pc' = "move"
          \/ /\ \E left \in {fs[BakPath(filepath)], Partial} :
                   fs' = [fs EXCEPT ![BakPath(filepath)] = left]
             /\ pc' = "except"
     ELSE /\ pc' = "move"
          /\ UNCHANGED fs
  /\ UNCHANGED << argVars, pair, startVars, exit_status, audio_files, idx, measurements, planVars,
                  applierVars, verifyVars, countVars, outcome, callVars >>

\* shutil.move(tmp_path, filepath) when os.rename succeeds: one atomic step
MoveRename ==
  /\ pc = "move"
  /\ same_fs
  /\ fs' = [fs EXCEPT ![filepath] = fs[tmp_path], ![tmp_path] = Absent]
  /\ ok' = TRUE
  /\ pc' = "returned"
  /\ UNCHANGED << argVars, pair, startVars, exit_status, audio_files, idx, measurements, planVars, af, cmd,
                  tmp_path, pre, rc, verifyVars, countVars, outcome, callVars >>

\* shutil.move when os.rename raises OSError (another filesystem): copy2
\* opens the destination for writing, which truncates it, or fails to
MoveCopyOpen ==
  /\ pc = "move"
  /\ ~same_fs
  /\ \/ /\ fs' = [fs EXCEPT ![filepath] = Empty]
        /\ pc' = "move_write"
     \/ /\ pc' = "except"
        /\ UNCHANGED fs
  /\ UNCHANGED << argVars, pair, startVars, exit_status, audio_files, idx, measurements, planVars,
                  applierVars, verifyVars, countVars, outcome, callVars >>

\* copy2 writes the data into the destination, or fails part-way
MoveCopyWrite ==
  /\ pc = "move_write"
  /\ \/ /\ fs' = [fs EXCEPT ![filepath] = fs[tmp_path]]
        /\ pc' = "move_unlink"
     \/ /\ fs' = [fs EXCEPT ![filepath] = Partial]
        /\ pc' = "except"
  /\ UNCHANGED << argVars, pair, startVars, exit_status, audio_files, idx, measurements, planVars,
                  applierVars, verifyVars, countVars, outcome, callVars >>

\* shutil.move ends with os.unlink(src); return True
MoveUnlink ==
  /\ pc = "move_unlink"
  /\ fs' = [fs EXCEPT ![tmp_path] = Absent]
  /\ ok' = TRUE
  /\ pc' = "returned"
  /\ UNCHANGED << argVars, pair, startVars, exit_status, audio_files, idx, measurements, planVars, af, cmd,
                  tmp_path, pre, rc, verifyVars, countVars, outcome, callVars >>

\* except Exception: if os.path.exists(tmp_path): os.unlink(tmp_path); raise.
\* Nothing in normalize_lufs, normalize_peak or main() catches it: the
\* interpreter prints the traceback and exits with status 1.
ExceptHandler ==
  /\ pc = "except"
  /\ fs' = IF Exists(fs, tmp_path) THEN Unlink(fs, tmp_path) ELSE fs
  /\ pc' = "crashed"
  /\ exit_status' = 1
  /\ UNCHANGED << argVars, pair, startVars, audio_files, idx, measurements, planVars,
                  applierVars, verifyVars, countVars, outcome, callVars >>

ApplierPcs == {"mkstemp", "ffmpeg", "filtered", "move", "move_write", "move_unlink", "except"}

\* the process is killed while _apply_filter runs
Kill ==
  /\ pc \in ApplierPcs
  /\ pc' = "killed"
  /\ UNCHANGED << argVars, pair, startVars, exit_status, fs, audio_files, idx, measurements, planVars,
                  applierVars, verifyVars, countVars, outcome, callVars >>

----------------------------------------------------------------------------
(* main(): after normalize_lufs / normalize_peak returned *)

\* the post-apply measurement is usable for the report
Verifiable(r, verify) ==
  IF r = "Lufs" THEN ~verify.isNone /\ is_lufs_valid(verify)
  ELSE ~verify.isNone /\ get_peak_db(verify) # NoneV

\* faulty variant: the returned value is not looked at
ApplyAssumedOk(okv) == TRUE

\* ok = normalize_lufs(...) / normalize_peak(...); if ok:
ApplySucceeded(okv) == okv

\* faulty variant: a file whose result cannot be verified is counted as
\* processed and as failed
VerifyResultCountedTwice(v) ==
  [outcome |-> "Normalized", processed |-> 1, failed |-> IF v THEN 0 ELSE 1]

\* faulty variant: a file whose result cannot be verified counts as failed
VerifyResultStrict(v) ==
  IF v THEN [outcome |-> "Normalized", processed |-> 1, failed |-> 0]
  ELSE [outcome |-> "Failed", processed |-> 0, failed |-> 1]

\* both branches of the report are followed by success_count += 1
VerifyResult(v) == [outcome |-> "Normalized", processed |-> 1, failed |-> 0]

\* if ok: verify = measure_loudness(filepath, target); ...; success_count += 1
Verify ==
  /\ pc = "returned"
  /\ ApplySucceeded(ok)
  /\ \E run \in MeasureRuns :
       /\ verify_none' = measure_loudness(run).isNone
       /\ verified' = Verifiable(regime, measure_loudness(run))
  /\ measureCalls' = [measureCalls EXCEPT ![idx] = @ + 1]
  /\ success_count' = success_count + VerifyResult(verified').processed
  /\ fail_count' = fail_count + VerifyResult(verified').failed
  /\ outcome' = [outcome EXCEPT ![idx] = VerifyResult(verified').outcome]
  /\ pc' = "loop"
  /\ UNCHANGED << argVars, pair, startVars, exit_status, fs, audio_files, idx, measurements, planVars,
                  applierVars, skip_count, applyCalls >>

\* else: "FAILED to normalize"; fail_count += 1
ApplyFailed ==
  /\ pc = "returned"
  /\ ~ApplySucceeded(ok)
  /\ fail_count' = fail_count + 1
  /\ outcome' = [outcome EXCEPT ![idx] = "Failed"]
  /\ pc' = "loop"
  /\ UNCHANGED << argVars, pair, startVars, exit_status, fs, audio_files, idx, measurements, planVars,
                  applierVars, verifyVars, success_count, skip_count, callVars >>

----------------------------------------------------------------------------

Next ==
  \/ CheckFfmpeg \/ DetermineFiles \/ ForNext \/ Summary
  \/ Measure \/ MeasureFailed \/ LufsPath \/ PeakPath \/ Unmeasurable
  \/ Mkstemp \/ RunFilter \/ FilterFailed \/ Backup
  \/ MoveRename \/ MoveCopyOpen \/ MoveCopyWrite \/ MoveUnlink
  \/ ExceptHandler \/ Kill \/ Verify \/ ApplyFailed

Spec == Init /\ [][Next]_vars

\* the dry run has printed its summary; main() is invoked again with the
\* same arguments but --dry-run, finds ffmpeg and the same files, and is
\* about to enter its loop; each file will measure as it did the first time
Rerun ==
  /\ pc = "done"
  /\ pair.mode = "dry"
  /\ pair' = [mode |-> "real",
              first |-> Append(pair.first, measurements),
              plans |-> <<>>,
              dry |-> [plans |-> Append(pair.plans, << regime, decision >>),
                       outcome |-> outcome,
                       skip |-> skip_count,
                       fail |-> fail_count]]
  /\ dry_run' = FALSE
  /\ pc' = "loop"
  /\ exit_status' = -1
  /\ idx' = 0
  /\ measurements' = None /\ m_result' = NoResult
  /\ regime' = "none" /\ gain' = 0 /\ shown_gain' = 0 /\ decision' = "none"
  /\ af' = NoFilter /\ cmd' = NoCmd /\ tmp_path' = "" /\ pre' = Absent
  /\ rc' = -1 /\ ok' = FALSE /\ verified' = FALSE /\ verify_none' = FALSE
  /\ success_count' = 0 /\ skip_count' = 0 /\ fail_count' = 0
  /\ outcome' = [i \in DOMAIN audio_files |-> "none"]
  /\ applyCalls' = [i \in DOMAIN audio_files |-> 0]
  /\ measureCalls' = [i \in DOMAIN audio_files |-> 0]
  /\ UNCHANGED << backup, target, peak_target, same_fs, fs0, startVars, fs, audio_files >>

NextPair == Next \/ Rerun

SpecPair == InitPair /\ [][NextPair]_vars

----------------------------------------------------------------------------
(* Properties *)

\* the engine's filter run of the current file has happened
FilterRan == idx > 0 /\ cmd # NoCmd

\* C1 (failure atomicity): when the engine's filter run exits non-zero,
\* _apply_filter returns False and the original file holds exactly the
\* contents it held when _apply_filter was entered.
C1_FailureAtomicity ==
  (FilterRan /\ rc > 0 /\ pc \in {"filtered", "returned", "loop", "done"}) =>
     /\ fs[filepath] = pre
     /\ pc # "filtered" => ~ok

C1_Witness ==
  /\ FilterRan /\ rc > 0 /\ pc = "returned" /\ ~ok
  /\ pre = OriginalContents(filepath) /\ fs[filepath] = pre

\* C2 (atomic promotion), as claimed: once the engine's filter run has
\* succeeded, in every later state of that apply, a killed process
\* included, the original path holds the complete pre-apply contents or
\* the complete engine output.
C2_AtomicPromotion ==
  (FilterRan /\ rc = 0 /\ pc \in {"filtered", "move", "move_write", "move_unlink", "returned", "killed"}) =>
     fs[filepath] \in {pre, Filtered(pre)}

\* C3 (backup fidelity): when --backup is given and the apply returned True,
\* <path>.bak exists and holds the contents the original had when the apply
\* started, whether or not a .bak was there before.
C3_BackupFidelity ==
  (idx > 0 /\ backup /\ ok /\ pc \in {"returned", "loop", "done"}) =>
     /\ Exists(fs, BakPath(filepath))
     /\ fs[BakPath(filepath)] = pre

C3_Witness ==
  /\ idx > 0 /\ backup /\ ok /\ pc = "returned"
  /\ fs0[BakPath(filepath)] = OldBackup
  /\ fs[BakPath(filepath)] = pre
  /\ fs[filepath] = Filtered(pre)

\* C4 (dry-run purity): in a dry run the filesystem is, in every state, the
\* one the run started with; _apply_filter is never entered and no file is
\* measured a second time.
C4_DryRunPurity ==
  dry_run =>
     /\ fs = fs0
     /\ pc \notin ApplierPcs \cup {"returned", "crashed", "killed"}
     /\ \A i \in DOMAIN applyCalls : applyCalls[i] = 0
     /\ \A i \in DOMAIN measureCalls : measureCalls[i] <= 1

C4_Witness ==
  /\ dry_run /\ pc = "done" /\ Len(audio_files) = MaxFiles
  /\ \E i \in DOMAIN outcome : outcome[i] = "WouldNormalize"
  /\ \E i \in DOMAIN outcome : outcome[i] = "Skipped"
  /\ fs = fs0

\* C5 (the loop never aborts), as claimed: once the engine was found
\* available and the files were collected, the run does not end, normally
\* or by an error raised by the backup copy or the promotion after a
\* successful filter run, before every file has an outcome.
C5_LoopNeverAborts ==
  (pc = "done" \/ (pc = "crashed" /\ rc = 0)) =>
     \A i \in DOMAIN outcome : outcome[i] \in {"Normalized", "WouldNormalize", "Skipped", "Failed"}

\* level and target that count in the regime of the current file
Current == IF regime = "Lufs" THEN measurements.input_i.v ELSE measurements.input_tp.v
ActiveTarget == IF regime = "Lufs" THEN target ELSE peak_target
Gap == IF Current >= ActiveTarget THEN Current - ActiveTarget ELSE ActiveTarget - Current

\* C6 (skip law): for a file measured in regime Lufs or Peak the decision is
\* Skip exactly when |current - target| < 1.5 dB, current and target being
\* those of the regime; a gap of exactly 1.5 dB gives Apply.
C6_SkipLaw ==
  (idx > 0 /\ regime \in {"Lufs", "Peak"}) =>
     /\ decision \in {"Skip", "Apply"}
     /\ decision = "Skip" <=> Gap < 150
     /\ Gap = 150 => decision = "Apply"

C6_Witness ==
  /\ idx > 0 /\ regime = "Lufs" /\ decision = "Apply" /\ Gap = 150

\* the first measurement of the current file is in and main() has branched on it
Classified == idx > 0 /\ ~measurements.isNone /\ pc \notin {"measure", "classify"}

\* C7 (regime priority): a finite integrated loudness gives regime Lufs
\* whatever the true peak is; a non-finite one with a finite true peak gives
\* Peak; the Lufs branch decides and computes its gain from the LUFS target
\* alone, the Peak branch from the peak target alone.
C7_RegimePriority ==
  Classified =>
     /\ measurements.input_i.k = "num" => regime = "Lufs"
     /\ (measurements.input_i.k # "num" /\ measurements.input_tp.k = "num") => regime = "Peak"
     /\ regime = "Lufs" =>
          LET d == measurements.input_i.v - target IN
            /\ decision = "Skip" <=> (-150 < d /\ d < 150)
            /\ decision = "Apply" => gain = target - measurements.input_i.v
     /\ regime = "Peak" =>
          LET d == measurements.input_tp.v - peak_target IN
            /\ decision = "Skip" <=> (-150 < d /\ d < 150)
            /\ decision = "Apply" => gain = peak_target - measurements.input_tp.v

C7_Witness ==
  /\ Classified /\ regime = "Lufs" /\ decision = "Apply"
  /\ measurements.input_i.k = "num" /\ measurements.input_tp.k = "-inf"

\* number of files of the list that ended with outcome o
Ended(o) == Cardinality({i \in DOMAIN outcome : outcome[i] = o})

\* C8 (unmeasurable only fails): a measurement whose integrated loudness
\* and true peak are both unusable ends the file as Failed, counted once in
\* fail_count, without _apply_filter being entered for it; _apply_filter is
\* only ever entered in regime Lufs or Peak.
C8_UnmeasurableFails ==
  /\ (Classified /\ measurements.input_i.k # "num" /\ measurements.input_tp.k # "num") =>
        /\ regime = "Unmeasurable"
        /\ outcome[idx] = "Failed"
        /\ applyCalls[idx] = 0
        /\ pc \in {"loop", "done"}
  /\ fail_count = Ended("Failed")
  /\ \A i \in DOMAIN applyCalls : applyCalls[i] > 0 => (i = idx /\ regime \in {"Lufs", "Peak"}) \/ i < idx

C8_Witness ==
  /\ Classified /\ pc = "loop" /\ regime = "Unmeasurable"
  /\ measurements.input_i.k = "-inf" /\ measurements.input_tp.k = "-inf"
  /\ outcome[idx] = "Failed" /\ fail_count = 1

\* the first measurement run of the current file gave no usable block
NullRun == m_result.rc # 0 \/ m_result.text # "json"

\* C9 (measurement failure is local): when the first measurement of a file
\* is null (the engine exited non-zero, or its output held no parseable
\* block), measuring and handling it change no file, the file ends as
\* Failed, fail_count grows by one and the other two counts stay.
C9_MeasurementFailureLocal ==
  [][ /\ pc = "measure" => fs' = fs
      /\ (pc = "classify" /\ NullRun) =>
            /\ measurements.isNone
            /\ fs' = fs
            /\ outcome' = [outcome EXCEPT ![idx] = "Failed"]
            /\ fail_count' = fail_count + 1
            /\ success_count' = success_count
            /\ skip_count' = skip_count
            /\ applyCalls' = applyCalls
            /\ pc' = "loop" ]_vars

C9_Witness ==
  /\ idx > 0 /\ pc = "loop" /\ m_result.rc # 0 /\ measurements.isNone
  /\ outcome[idx] = "Failed" /\ fail_count = 1 /\ success_count = 0 /\ skip_count = 0
  /\ fs = fs0

\* C10 (gain computation), as claimed: the gain in the filter handed to the
\* engine is target - current of the regime and equals the gain printed
\* for the file.
C10_GainHandedIsReported ==
  FilterRan =>
     /\ cmd.af.volume = ActiveTarget - Current
     /\ cmd.af.volume = shown_gain

\* C10, amended: the gain in the filter handed to the engine is
\* target - current of the regime and is main()'s gain; the gain printed is
\* that value rounded to the nearest tenth of a dB.
C10_GainExact ==
  FilterRan =>
     /\ cmd.af.volume = ActiveTarget - Current
     /\ cmd.af.volume = gain
     /\ shown_gain % 10 = 0
     /\ shown_gain - cmd.af.volume \in -5..5

C10_Witness ==
  /\ FilterRan /\ regime = "Lufs" /\ rc = 0
  /\ cmd.af.volume = 1234 /\ shown_gain = 1230

\* C11 (verification failure is not fatal): after an apply that returned
\* True the file ends as Normalized whatever the second measurement gives
\* (None, an unusable value, a usable one); it is counted once in
\* success_count and not in fail_count.
C11_VerifyNonFatal ==
  /\ (idx > 0 /\ ok /\ pc \in {"loop", "done"}) => outcome[idx] = "Normalized"
  /\ success_count = Ended("Normalized") + Ended("WouldNormalize")
  /\ fail_count = Ended("Failed")
  /\ \A i \in DOMAIN outcome : outcome[i] = "Normalized" => applyCalls[i] = 1

C11_Witness ==
  /\ idx > 0 /\ ok /\ pc = "loop" /\ verify_none /\ ~verified
  /\ outcome[idx] = "Normalized" /\ success_count = 1 /\ fail_count = 0

\* C12 (engine unavailable is fatal before any file is touched): when
\* check_ffmpeg fails the process exits with status 1; no file was measured,
\* created, changed or deleted, and no file was collected or counted.
C12_EngineUnavailableFatal ==
  probe \in {"nonzero", "notfound"} =>
     /\ pc = "exit1" /\ exit_status = 1
     /\ fs = fs0
     /\ audio_files = <<>> /\ idx = 0
     /\ measureCalls = <<>> /\ applyCalls = <<>> /\ outcome = <<>>
     /\ m_result = NoResult
     /\ success_count = 0 /\ skip_count = 0 /\ fail_count = 0

C12_Witness ==
  /\ probe = "nonzero" /\ pc = "exit1" /\ exit_status = 1 /\ fs = fs0

\* C13 (exit status), as claimed: the process exits non-zero exactly when
\* the engine is unavailable or no paths were given and the default
\* directory is missing; every other run exits with status 0.  Runs in
\* which the filter run itself could not be started are left aside.
C13_ExitStatus ==
  (exit_status # -1 /\ ~(pc = "crashed" /\ rc = -1)) =>
     /\ exit_status \in {0, 1}
     /\ exit_status # 0 <=> (probe # "exit0" \/ no_audio_dir)

\* C14 (no dangling temporary file): once _apply_filter has ended, by
\* returning True, by returning False after a non-zero engine exit, or by
\* re-raising an error, nothing exists at tmp_path.
C14_NoDanglingTemp ==
  (idx > 0 /\ tmp_path # "" /\ pc \in {"returned", "crashed", "loop", "done"}) =>
     ~Exists(fs, tmp_path)

C14_Witness ==
  /\ idx > 0 /\ tmp_path # "" /\ pc = "crashed" /\ rc = 0
  /\ fs[filepath] = Partial /\ ~Exists(fs, tmp_path)

\* C15 (per-file step order): a file is measured, then classified and
\* planned, then skipped, or applied and measured again, or failed.
\* _apply_filter is entered at most once per file, only in a real run and
\* only with an Apply plan from a successful measurement; a file is measured
\* at most twice, the second time only after its apply returned True; the
\* files before the current one have their outcome, the files after it are
\* untouched.
C15_StepOrder ==
  /\ \A i \in DOMAIN outcome :
        /\ applyCalls[i] <= 1 /\ measureCalls[i] <= 2
        /\ applyCalls[i] = 1 => (~dry_run /\ measureCalls[i] >= 1)
        /\ measureCalls[i] = 2 => (applyCalls[i] = 1 /\ outcome[i] = "Normalized")
        /\ i < idx => outcome[i] \in {"Normalized", "WouldNormalize", "Skipped", "Failed"}
        /\ i > idx => (outcome[i] = "none" /\ applyCalls[i] = 0 /\ measureCalls[i] = 0)
        /\ outcome[i] \in {"Skipped", "WouldNormalize"} => (applyCalls[i] = 0 /\ measureCalls[i] = 1)
        /\ outcome[i] = "Normalized" => (applyCalls[i] = 1 /\ measureCalls[i] = 2)
        /\ outcome[i] = "Failed" => measureCalls[i] = 1
  /\ pc = "measure" => (measureCalls[idx] = 0 /\ applyCalls[idx] = 0)
  /\ pc = "classify" => (measureCalls[idx] = 1 /\ applyCalls[idx] = 0 /\ decision = "none")
  /\ pc \in ApplierPcs \cup {"returned"} =>
        /\ applyCalls[idx] = 1 /\ measureCalls[idx] = 1
        /\ ~measurements.isNone /\ decision = "Apply" /\ ~dry_run
  /\ (idx > 0 /\ measureCalls[idx] = 2) => ok

C15_Witness ==
  /\ pc = "done" /\ Len(audio_files) = MaxFiles
  /\ outcome[1] = "Normalized" /\ measureCalls[1] = 2 /\ applyCalls[1] = 1
  /\ outcome[MaxFiles] = "Failed" /\ applyCalls[MaxFiles] = 1

\* os.path.dirname of the paths of the model: the audio files and their
\* backups lie in the audio directory, mkstemp's files in the temp directory
Dirname(p) == IF p \in Paths \cup {BakPath(q) : q \in Paths} THEN "assets/audio" ELSE "tmpdir"

\* C16 (temporary file placement): the temporary file that receives the
\* engine's output lies in the directory of the original it will replace,
\* and its promotion is a rename within one filesystem.
C16_TempBesideOriginal ==
  (idx > 0 /\ tmp_path # "") =>
     /\ Dirname(tmp_path) = Dirname(filepath)
     /\ pc \in {"move", "move_write", "move_unlink"} => same_fs

\* C17 (backup ordering): every step that creates or changes a .bak file
\* is the backup step of the current file, taken when backup is requested,
\* after the engine's filter call exited with status 0, and while the
\* original still has the contents it had when the apply began; that step
\* leaves the original alone. So without backup, or after a failed engine
\* call, no .bak file is created or changed.
C17_BackupOrdering ==
  [][\A p \in Paths :
        fs'[BakPath(p)] # fs[BakPath(p)] =>
           /\ backup /\ rc = 0 /\ pc = "filtered"
           /\ idx > 0 /\ p = filepath
           /\ fs[p] = pre /\ fs'[p] = fs[p]]_vars

C17_Witness ==
  /\ pc = "move" /\ backup /\ rc = 0
  /\ fs[filepath] = pre /\ fs[BakPath(filepath)] = pre
  /\ fs0[BakPath(filepath)] # pre

\* the file about to be classified has a measurement whose plan is Skip
PlanIsSkip ==
  /\ idx > 0 /\ pc = "classify" /\ ~measurements.isNone
  /\ IF is_lufs_valid(measurements)
     THEN Abs(measurements.input_i.v - target) < LUFS_TOLERANCE
     ELSE /\ get_peak_db(measurements) # NoneV
          /\ Abs(get_peak_db(measurements).v - peak_target) < PEAK_TOLERANCE

\* C18 (skipped files are left unmodified): in a real run, the step that
\* handles a file whose plan is Skip gives it the outcome Skipped, adds
\* exactly one to skip_count and nothing to the other counts, enters neither
\* _apply_filter nor a second measurement, and changes no file; measuring
\* changes no file either, and a Skipped file is never applied or measured
\* again afterwards.
C18_SkippedUnmodified ==
  [][/\ (PlanIsSkip /\ ~dry_run) =>
          /\ decision' = "Skip" /\ outcome'[idx] = "Skipped" /\ pc' = "loop"
          /\ skip_count' = skip_count + 1
          /\ success_count' = success_count /\ fail_count' = fail_count
          /\ applyCalls' = applyCalls /\ measureCalls' = measureCalls
          /\ applyCalls[idx] = 0 /\ measureCalls[idx] = 1
          /\ fs' = fs
     /\ pc = "measure" => fs' = fs
     /\ \A i \in DOMAIN outcome :
          outcome[i] = "Skipped" =>
             /\ outcome'[i] = "Skipped"
             /\ applyCalls'[i] = 0 /\ measureCalls'[i] = 1]_vars

C18_Witness ==
  /\ ~dry_run /\ idx > 0 /\ pc = "loop"
  /\ regime = "Peak" /\ decision = "Skip" /\ outcome[idx] = "Skipped"
  /\ skip_count = 1 /\ applyCalls[idx] = 0 /\ measureCalls[idx] = 1
  /\ fs = fs0 /\ Exists(fs, BakPath(filepath))

\* the files that have reached a terminal outcome
Terminal == {i \in DOMAIN outcome : outcome[i] # "none"}

\* C19 (count conservation): at every point the three counts sum to the
\* number of files with a terminal outcome, each count being the number of
\* files with the outcomes it stands for (so every file is counted once, in
\* one count); when the run completes, every file has its outcome and the
\* counts sum to the number of files.
C19_CountConservation ==
  /\ success_count + skip_count + fail_count = Cardinality(Terminal)
  /\ success_count = Ended("Normalized") + Ended("WouldNormalize")
  /\ skip_count = Ended("Skipped")
  /\ fail_count = Ended("Failed")
  /\ pc \in {"done", "exit0"} =>
        /\ Terminal = DOMAIN audio_files
        /\ success_count + skip_count + fail_count = Len(audio_files)

C19_Witness ==
  /\ pc = "done" /\ Len(audio_files) = MaxFiles
  /\ outcome[1] = "Skipped" /\ outcome[MaxFiles] = "Normalized" /\ ~verified
  /\ success_count = 1 /\ skip_count = 1 /\ fail_count = 0

\* regime and decision the real run gave file i
RealPlan(i) ==
  IF i < idx THEN pair.plans[i]
  ELSE IF i = idx THEN << regime, decision >>
  ELSE << "none", "none" >>

\* the files whose apply returned False in the real run
ApplyFailures == {i \in DOMAIN outcome : applyCalls[i] = 1 /\ outcome[i] = "Failed"}

\* what the dry run predicts of the real run on the same inputs
Predicted ==
  /\ \A i \in DOMAIN audio_files : RealPlan(i) = pair.dry.plans[i]
  /\ skip_count = pair.dry.skip
  /\ \A i \in DOMAIN audio_files :
        pair.dry.outcome[i] = "WouldNormalize" => applyCalls[i] = 1
  /\ pair.dry.fail = fail_count - Cardinality(ApplyFailures)

\* C20 (dry run predicts the real run): when a real run on the files,
\* targets and first-pass measurements of a dry run has ended, every file
\* has the regime and the decision the dry run gave it, the skipped counts
\* are equal, every file the dry run counted as processed was handed to
\* _apply_filter, and the dry run's failed count is the real run's minus
\* the number of files whose apply failed.
C20_DryRunPredicts ==
  (pair.mode = "real" /\ pc \in {"done", "crashed"} /\ ~(pc = "crashed" /\ rc = -1)) =>
     Predicted

\* the prediction is right for every real run that reaches its summary
C20_PredictsCompletedRun ==
  (pair.mode = "real" /\ pc = "done") => Predicted

====
